---- MODULE Spec2Model ----
(***************************************************************************)
(* DProfiler: a hierarchical wall-clock profiler (src/DProfiler.h,         *)
(* src/DProfiler.cpp).  Threads bracket code with SectionPush/SectionPop;  *)
(* every thread records into its own DProfileContext, found or created in  *)
(* the static vector DProfiler::contexts under the semaphore               *)
(* DProfiler::lock.  The model keeps the heap of DProfileContext and       *)
(* DProfileSection objects, the static members, and for each thread the    *)
(* position inside the call it is executing together with that call's      *)
(* local variables.  A step of a thread is a piece of code holding at most *)
(* one access to memory another thread can touch without the lock.         *)
(***************************************************************************)
EXTENDS Integers, Sequences, FiniteSets, TLC

\* the null pointer
NULL == 0

\* the threads, named by their DThreadContext
AllThreads == {1, 2}

\* the runs: one thread alone, or two threads side by side
ThreadSets == {{1}, AllThreads}

\* the section names passed to SectionPush
Labels == {"A", "B"}

\* the clock stops at MaxClock
MaxClock == 20

\* the calls of SectionPush, SectionPop and Clear in a run of one thread
MaxOps == 5

\* the calls of SectionPush, SectionPop and Clear in a run of two threads
MaxConcOps == 3

VARIABLES
    contexts,       \* DProfiler::contexts, the vector of DProfileContext*
    ctxs,           \* the DProfileContext objects ever allocated; a pointer is an index
    secs,           \* the DProfileSection objects ever allocated; a pointer is an index
    EXEC_ORDER_ID,  \* DProfileSection::EXEC_ORDER_ID
    end_time,       \* DProfiler::end_time
    lock,           \* DProfiler::lock, a semaphore's count
    now,            \* the clock DTime::SetNow reads
    th,             \* per thread: position, the call's arguments and locals, history
    hist,           \* per section: how many durations were recorded and their sum
    ops             \* calls left

vars == <<contexts, ctxs, secs, EXEC_ORDER_ID, end_time, lock, now, th, hist, ops>>

----------------------------------------------------------------------------
(* Doubles are kept as exact fractions <<numerator, denominator>> in lowest *)
(* terms, denominator positive.                                            *)

Abs(x) == IF x < 0 THEN -x ELSE x

RECURSIVE Gcd(_, _)
Gcd(a, b) == IF b = 0 THEN a ELSE Gcd(b, a % b)

Frac(n, d) ==
    LET g == Gcd(Abs(n), d)
    IN  IF n = 0 THEN <<0, 1>> ELSE <<n \div g, d \div g>>

\* avg_time * call_count, as a fraction
Total(sec) == Frac(sec.avg_time[1] * sec.call_count, sec.avg_time[2])

----------------------------------------------------------------------------
\* (a slip: the constructor starts call_count at 1)
NewSectionCounted(id) ==
    [parent |-> NULL, name |-> "", children |-> <<>>, call_count |-> 1,
     avg_time |-> <<0, 1>>, exec_order_id |-> id, timer |-> 0, alive |-> TRUE]

\* DProfileSection::DProfileSection; timer is not read before SectionPush sets it
NewSection(id) ==
    [parent |-> NULL, name |-> "", children |-> <<>>, call_count |-> 0,
     avg_time |-> <<0, 1>>, exec_order_id |-> id, timer |-> 0, alive |-> TRUE]

\* DProfileContext::DProfileContext, then thread_context.Set()
NewContext(t) ==
    [thread_context |-> t, toplevel |-> NULL, current |-> NULL, alive |-> TRUE]

IdleThread ==
    [pc |-> "idle", op |-> "none", name |-> "", context |-> NULL, s |-> NULL,
     tmp |-> 0, time |-> 0, stop |-> 0, saved |-> <<>>, restored |-> NULL,
     pushed |-> FALSE, sort_by |-> "none", i |-> 0, frames |-> <<>>, out |-> <<>>]

\* the threads of this run
Threads == {t \in AllThreads : th[t].pc # "absent"}

\* how far the clock may have moved on between two samples (ms); two
\* threads see a coarser clock than one
ClockSteps == IF Cardinality(Threads) = 1 THEN {0, 5, 10} ELSE {0, 5}

Init ==
    /\ contexts = <<>>
    /\ ctxs = <<>>
    /\ secs = <<>>
    /\ EXEC_ORDER_ID = 0
    /\ end_time = 0
    /\ lock = 1
    /\ now = 0
    /\ \E T \in ThreadSets :
          /\ th = [t \in AllThreads |->
                    IF t \in T THEN IdleThread ELSE [IdleThread EXCEPT !.pc = "absent"]]
          /\ ops = IF Cardinality(T) = 1 THEN MaxOps ELSE MaxConcOps
    /\ hist = <<>>

\* a call returns: its locals are gone
Return(t, r) ==
    [r EXCEPT !.pc = "idle", !.op = "none", !.name = "", !.context = NULL,
              !.s = NULL, !.tmp = 0, !.time = 0, !.stop = 0,
              !.sort_by = "none", !.i = 0, !.frames = <<>>, !.out = <<>>]

----------------------------------------------------------------------------
(* DProfiler::GetContext.  What runs between lock.Wait() and              *)
(* lock.Signal() touches only what the lock guards, except the constructor *)
(* of the root section, which reads and writes EXEC_ORDER_ID: the found    *)
(* path is one step, the creating path is two, split inside                *)
(* exec_order_id = EXEC_ORDER_ID++.                                        *)

\* DSemaphore::Wait and DSemaphore::Signal on the count
Wait(l) == l - 1
Signal(l) == l + 1

\* thread_context == (*i)->thread_context
SameThread(t, c) == ctxs[c].thread_context = t

\* (a slip: the loop returns the first context without comparing the threads)
FindContextFirst(t) == IF contexts = <<>> THEN NULL ELSE contexts[1]

\* (a slip: the loop never matches)
FindContextNone(t) == NULL

\* the loop over contexts: the first context of the calling thread, or NULL
FindContext(t) ==
    LET hits == {i \in 1..Len(contexts) : SameThread(t, contexts[i])}
    IN  IF hits = {} THEN NULL
        ELSE contexts[CHOOSE i \in hits : \A j \in hits : i <= j]

\* where the caller of GetContext goes on
AfterGetContext(r) == IF r.op = "push" THEN "push_lookup" ELSE "pop_check"

\* (a slip: the found path returns without lock.Signal())
GetContextFoundHolds(t, r) ==
    /\ lock > 0
    /\ FindContext(t) # NULL
    /\ lock' = Wait(lock)
    /\ th' = [th EXCEPT ![t] = [r EXCEPT !.context = FindContext(t),
                                         !.pc = AfterGetContext(r)]]
    /\ UNCHANGED <<contexts, ctxs>>

\* lock.Wait(); found: lock.Signal(); return *i
GetContextFound(t, r) ==
    /\ lock > 0
    /\ FindContext(t) # NULL
    /\ lock' = Signal(Wait(lock))
    /\ th' = [th EXCEPT ![t] = [r EXCEPT !.context = FindContext(t),
                                         !.pc = AfterGetContext(r)]]
    /\ UNCHANGED <<contexts, ctxs>>

\* lock.Wait(); not found: new DProfileContext, push_back, thread_context.Set(),
\* and new DProfileSection() as far as its read of EXEC_ORDER_ID
GetContextCreate(t, r) ==
    /\ lock > 0
    /\ FindContext(t) = NULL
    /\ lock' = Wait(lock)
    /\ ctxs' = Append(ctxs, NewContext(t))
    /\ contexts' = Append(contexts, Len(ctxs) + 1)
    /\ th' = [th EXCEPT ![t] = [r EXCEPT !.context = Len(ctxs) + 1,
                                         !.tmp = EXEC_ORDER_ID,
                                         !.pc = "gc_ctor"]]

\* GetContext from its lock.Wait() on, called by a thread whose record is r
GetContext(t, r) == GetContextFound(t, r) \/ GetContextCreate(t, r)

\* the rest of new DProfileSection(): EXEC_ORDER_ID's write; then
\* toplevel = the section; current = toplevel; lock.Signal(); return context
GetContextRoot(t) ==
    /\ th[t].pc = "gc_ctor"
    /\ EXEC_ORDER_ID' = th[t].tmp + 1
    /\ secs' = Append(secs, NewSection(th[t].tmp))
    /\ hist' = Append(hist, [n |-> 0, sum |-> 0])
    /\ ctxs' = [ctxs EXCEPT ![th[t].context].toplevel = Len(secs) + 1,
                            ![th[t].context].current = Len(secs) + 1]
    /\ lock' = Signal(lock)
    /\ th' = [th EXCEPT ![t].tmp = 0, ![t].pc = AfterGetContext(th[t])]
    /\ UNCHANGED <<contexts, end_time, now, ops>>

----------------------------------------------------------------------------
(* DProfiler::SectionPush                                                  *)

\* DProfileContext* context = GetContext()
PushCall(t, n) ==
    /\ th[t].pc = "idle"
    /\ ops > 0
    /\ ops' = ops - 1
    /\ GetContext(t, [th[t] EXCEPT !.op = "push", !.name = n, !.restored = NULL,
                                   !.pushed = TRUE])
    /\ UNCHANGED <<secs, EXEC_ORDER_ID, end_time, now, hist>>

\* (a slip: the existing child is not found)
ChildLookupMiss(sec, n) == NULL

\* children[name] of a std::map: the entry, NULL when there is none
ChildLookup(sec, n) ==
    IF n \in DOMAIN sec.children THEN sec.children[n] ELSE NULL

\* assert( context->current ); s = context->current->children[name];
\* operator[] leaves a NULL entry behind when there was none
PushLookup(t) ==
    LET cur == ctxs[th[t].context].current
        found == ChildLookup(secs[cur], th[t].name)
    IN  /\ th[t].pc = "push_lookup"
        /\ cur # NULL
        /\ secs' = [secs EXCEPT ![cur].children = (th[t].name :> found) @@ @]
        /\ th' = [th EXCEPT ![t].s = found,
                            ![t].pc = IF found = NULL THEN "push_ctor"
                                      ELSE "push_shift"]
        /\ UNCHANGED <<contexts, ctxs, EXEC_ORDER_ID, end_time, lock, now, hist, ops>>

\* s = new DProfileSection(): exec_order_id = EXEC_ORDER_ID++ is a read and a
\* write of a static int, under no lock
CtorRead(t) ==
    /\ th[t].pc = "push_ctor"
    /\ th' = [th EXCEPT ![t].tmp = EXEC_ORDER_ID, ![t].pc = "push_ctor_write"]
    /\ UNCHANGED <<contexts, ctxs, secs, EXEC_ORDER_ID, end_time, lock, now, hist, ops>>

CtorWrite(t) ==
    /\ th[t].pc = "push_ctor_write"
    /\ EXEC_ORDER_ID' = th[t].tmp + 1
    /\ secs' = Append(secs, NewSection(th[t].tmp))
    /\ hist' = Append(hist, [n |-> 0, sum |-> 0])
    /\ th' = [th EXCEPT ![t].s = Len(secs) + 1, ![t].tmp = 0, ![t].pc = "push_link"]
    /\ UNCHANGED <<contexts, ctxs, end_time, lock, now, ops>>

\* (a slip: s->parent is not set)
PushLinkParentless(t) ==
    LET cur == ctxs[th[t].context].current
    IN  /\ th[t].pc = "push_link"
        /\ secs' = [secs EXCEPT ![th[t].s].name = th[t].name,
                                ![cur].children = (th[t].name :> th[t].s) @@ @]
        /\ th' = [th EXCEPT ![t].pc = "push_shift"]
        /\ UNCHANGED <<contexts, ctxs, EXEC_ORDER_ID, end_time, lock, now, hist, ops>>

\* s->parent = context->current; s->name = name; children[name] = s
PushLink(t) ==
    LET cur == ctxs[th[t].context].current
    IN  /\ th[t].pc = "push_link"
        /\ secs' = [secs EXCEPT ![th[t].s].parent = cur,
                                ![th[t].s].name = th[t].name,
                                ![cur].children = (th[t].name :> th[t].s) @@ @]
        /\ th' = [th EXCEPT ![t].pc = "push_shift"]
        /\ UNCHANGED <<contexts, ctxs, EXEC_ORDER_ID, end_time, lock, now, hist, ops>>

\* context->current = s; context->current->timer.SetNow()
PushShift(t) ==
    LET cur == ctxs[th[t].context].current
    IN  /\ th[t].pc = "push_shift"
        /\ \E d \in ClockSteps :
              /\ now + d <= MaxClock
              /\ now' = now + d
              /\ secs' = [secs EXCEPT ![th[t].s].timer = now + d]
        /\ ctxs' = [ctxs EXCEPT ![th[t].context].current = th[t].s]
        /\ th' = [th EXCEPT ![t] = Return(t, [th[t] EXCEPT !.saved = Append(@, cur)])]
        /\ UNCHANGED <<contexts, EXEC_ORDER_ID, end_time, lock, hist, ops>>

----------------------------------------------------------------------------
(* DProfiler::SectionPop                                                   *)

\* (a slip: SectionPop does not sample the clock)
PopCallUnsampled(t) ==
    /\ th[t].pc = "idle"
    /\ ops > 0
    /\ ops' = ops - 1
    /\ th' = [th EXCEPT ![t].pc = "pop_sampled", ![t].op = "pop",
                        ![t].stop = end_time, ![t].restored = NULL]
    /\ UNCHANGED <<contexts, ctxs, secs, EXEC_ORDER_ID, end_time, lock, now, hist>>

\* end_time.SetNow(): the static DProfiler::end_time, written before GetContext
PopCall(t) ==
    /\ th[t].pc = "idle"
    /\ ops > 0
    /\ ops' = ops - 1
    /\ \E d \in ClockSteps :
          /\ now + d <= MaxClock
          /\ now' = now + d
          /\ end_time' = now + d
          /\ th' = [th EXCEPT ![t].pc = "pop_sampled", ![t].op = "pop",
                              ![t].stop = now + d, ![t].restored = NULL]
    /\ UNCHANGED <<contexts, ctxs, secs, EXEC_ORDER_ID, lock, hist>>

\* DProfileContext* context = GetContext()
PopGetContext(t) ==
    /\ th[t].pc = "pop_sampled"
    /\ GetContext(t, th[t])
    /\ UNCHANGED <<secs, EXEC_ORDER_ID, end_time, now, hist, ops>>

\* (a slip: the check left out)
AtRootNever(sec) == FALSE

\* context->current->parent == NULL
AtRoot(sec) == sec.parent = NULL

\* popping up too far: return
PopAtRoot(t) ==
    LET cur == ctxs[th[t].context].current
    IN  /\ th[t].pc = "pop_check"
        /\ AtRoot(secs[cur])
        /\ th' = [th EXCEPT ![t] = Return(t, th[t])]
        /\ UNCHANGED <<contexts, ctxs, secs, EXEC_ORDER_ID, end_time, lock, now, hist, ops>>

\* (end_time - s->timer).ToMillis()
Elapsed(stop, start) == stop - start

\* s = context->current; double time = (end_time - s->timer).ToMillis()
PopMeasure(t) ==
    LET cur == ctxs[th[t].context].current
    IN  /\ th[t].pc = "pop_check"
        /\ ~AtRoot(secs[cur])
        /\ th' = [th EXCEPT ![t].s = cur,
                            ![t].time = Elapsed(end_time, secs[cur].timer),
                            ![t].pc = "pop_record"]
        /\ UNCHANGED <<contexts, ctxs, secs, EXEC_ORDER_ID, end_time, lock, now, hist, ops>>

\* (a slip: ++call_count, so the old average is weighted by the new count)
RecordPreIncrement(sec, time) ==
    LET count == sec.call_count + 1
        num == time * sec.avg_time[2] + sec.avg_time[1] * count
    IN  [sec EXCEPT !.call_count = count,
                    !.avg_time = Frac(num, sec.avg_time[2] * count)]

\* total_time = time + avg_time * call_count++; avg_time = total_time / call_count
Record(sec, time) ==
    LET num == time * sec.avg_time[2] + sec.avg_time[1] * sec.call_count
        count == sec.call_count + 1
    IN  [sec EXCEPT !.call_count = count,
                    !.avg_time = Frac(num, sec.avg_time[2] * count)]

\* (a slip: up to the top instead of up one)
PopTargetTop(c, sec) == c.toplevel

\* context->current->parent
PopTarget(c, sec) == sec.parent

\* the new average and count, then context->current = context->current->parent
PopRecord(t) ==
    LET c == th[t].context
        s == th[t].s
        r == th[t]
    IN  /\ r.pc = "pop_record"
        /\ secs' = [secs EXCEPT ![s] = Record(@, r.time)]
        /\ hist' = [hist EXCEPT ![ctxs[c].current] =
                                    [n |-> @.n + 1, sum |-> @.sum + r.time]]
        /\ ctxs' = [ctxs EXCEPT ![c].current = PopTarget(ctxs[c], secs[ctxs[c].current])]
        /\ th' = [th EXCEPT ![t] = Return(t,
                    [r EXCEPT !.saved = IF @ = <<>> THEN @ ELSE SubSeq(@, 1, Len(@) - 1),
                              !.restored = IF r.saved = <<>> THEN NULL
                                           ELSE r.saved[Len(r.saved)]])]
        /\ UNCHANGED <<contexts, EXEC_ORDER_ID, end_time, lock, now, ops>>

----------------------------------------------------------------------------
(* DProfiler::Clear                                                        *)

\* lock.Wait()
ClearCall(t) ==
    /\ th[t].pc = "idle"
    /\ ops > 0
    /\ ops' = ops - 1
    /\ lock > 0
    /\ lock' = Wait(lock)
    /\ th' = [th EXCEPT ![t].pc = "clear_locked", ![t].op = "clear", ![t].restored = NULL]
    /\ UNCHANGED <<contexts, ctxs, secs, EXEC_ORDER_ID, end_time, now, hist>>

\* the sections ~DProfileSection deletes from s down: s and, through the
\* children maps, all below it
RECURSIVE Subtree(_)
Subtree(s) ==
    IF s = NULL THEN {}
    ELSE {s} \cup UNION {Subtree(secs[s].children[n]) : n \in DOMAIN secs[s].children}

\* the sections delete contexts[i] destroys, for all i
Destroyed == UNION {Subtree(ctxs[contexts[i]].toplevel) : i \in 1..Len(contexts)}

\* (a slip: the vector keeps the deleted pointers)
ClearedContextsKept == contexts

\* contexts.clear()
ClearedContexts == <<>>

\* delete contexts[i] for all i; contexts.clear(); lock.Signal()
ClearBody(t) ==
    /\ th[t].pc = "clear_locked"
    /\ ctxs' = [c \in 1..Len(ctxs) |->
                  IF \E i \in 1..Len(contexts) : contexts[i] = c
                  THEN [ctxs[c] EXCEPT !.alive = FALSE] ELSE ctxs[c]]
    /\ secs' = [s \in 1..Len(secs) |->
                  IF s \in Destroyed
                  THEN [secs[s] EXCEPT !.alive = FALSE, !.children = <<>>]
                  ELSE secs[s]]
    /\ contexts' = ClearedContexts
    /\ lock' = Signal(lock)
    /\ th' = [u \in AllThreads |->
                IF u = t THEN Return(t, [th[t] EXCEPT !.saved = <<>>])
                ELSE [th[u] EXCEPT !.saved = <<>>]]
    /\ UNCHANGED <<EXEC_ORDER_ID, end_time, now, hist, ops>>

----------------------------------------------------------------------------
(* A thread that holds a pointer to a context Clear has deleted goes on on  *)
(* freed memory, which is undefined: the steps above show it going on with *)
(* what the memory held; Crash shows the process dying.                    *)

Dangling(t) == th[t].context # NULL /\ ~ctxs[th[t].context].alive

Crash(t) ==
    /\ Dangling(t)
    /\ th[t].pc # "dead"
    /\ th' = [u \in AllThreads |->
                IF u \in Threads THEN [th[u] EXCEPT !.pc = "dead"] ELSE th[u]]
    /\ UNCHANGED <<contexts, ctxs, secs, EXEC_ORDER_ID, end_time, lock, now, hist, ops>>

\* the process has died
aborted == \E t \in Threads : th[t].pc = "dead"

----------------------------------------------------------------------------
(* DProfiler::Display and DProfileSection::Display.  The thread holds the  *)
(* lock from before the first context to after the last, and reads the     *)
(* trees of all threads, which their owners change without the lock.  A    *)
(* step is the work on one section: its line is written, then its children *)
(* map is read into children_vect and sorted.  frames is the stack of the  *)
(* calls of DProfileSection::Display that have not returned, the innermost *)
(* last; out is what has been written.                                     *)

\* the values of DProfiler::SORT_BY
SORT_BY == {"SORT_EXECUTION", "SORT_TIME"}

\* the keys of a children map in the order std::map iterates over them
KeyOrder == <<"A", "B">>

\* x > y for two doubles
Greater(x, y) == x[1] * y[2] > y[1] * x[2]

\* (a slip: the comparison is turned round)
reverse_time_comparator_less(a, b) == Greater(Total(secs[b]), Total(secs[a]))

reverse_time_comparator(a, b) == Greater(Total(secs[a]), Total(secs[b]))

execution_order_comparator(a, b) == secs[a].exec_order_id < secs[b].exec_order_id

\* the comparator std::sort is called with
Before(a, b, sort_by) ==
    IF sort_by = "SORT_TIME" THEN reverse_time_comparator(a, b)
    ELSE execution_order_comparator(a, b)

\* the loop over children: every entry of the map, the null ones too
Gather(sec) ==
    LET keys == SelectSeq(KeyOrder, LAMBDA n : n \in DOMAIN sec.children)
    IN  [k \in 1..Len(keys) |-> sec.children[keys[k]]]

\* the rearrangements of the sequence v
Rearrangements(v) ==
    {[k \in 1..Len(v) |-> v[f[k]]] :
        f \in {g \in [1..Len(v) -> 1..Len(v)] :
                  \A x, y \in 1..Len(v) : x # y => g[x] # g[y]}}

\* what std::sort may leave in children_vect: some rearrangement in which no
\* element comes before one the comparator puts before it
Sorted(v, sort_by) ==
    {p \in Rearrangements(v) :
        \A x, y \in 1..Len(p) : x < y => ~Before(p[y], p[x], sort_by)}

\* std::sort calls the comparator, which reads through both pointers, when
\* there are two elements or more
SortReadsNull(v) == Len(v) > 1 /\ \E k \in 1..Len(v) : v[k] = NULL

\* the frames DProfileSection::Display may be in when it reaches its second
\* loop at section s; a null pointer the comparator has read through leaves
\* the call where it faulted
Enter(s, sort_by) ==
    LET v == Gather(secs[s])
    IN  IF SortReadsNull(v)
        THEN {[sect |-> s, children_vect |-> v, i |-> 1, fault |-> TRUE]}
        ELSE {[sect |-> s, children_vect |-> p, i |-> 1, fault |-> FALSE] :
                 p \in Sorted(v, sort_by)}

\* printf("Thread %x\n", ...) for context c
Banner(c) ==
    [thread |-> c, parent |-> NULL, sect |-> NULL, name |-> "",
     total |-> <<0, 1>>, avg_time |-> <<0, 1>>, call_count |-> 0]

\* the printf of the second loop of section p for its child sect: the name,
\* avg_time * call_count, avg_time and call_count
Line(p, sect) ==
    [thread |-> NULL, parent |-> p, sect |-> sect, name |-> secs[sect].name,
     total |-> Total(secs[sect]), avg_time |-> secs[sect].avg_time,
     call_count |-> secs[sect].call_count]

\* the innermost call of DProfileSection::Display
Top(t) == th[t].frames[Len(th[t].frames)]

\* the calls whose second loop is over return, the innermost first
RECURSIVE Unwind(_)
Unwind(frames) ==
    IF frames = <<>> THEN <<>>
    ELSE LET f == frames[Len(frames)]
         IN  IF ~f.fault /\ f.i > Len(f.children_vect)
             THEN Unwind(SubSeq(frames, 1, Len(frames) - 1))
             ELSE frames

\* lock.Wait()
DisplayCall(t, sort) ==
    /\ th[t].pc = "idle"
    /\ ops > 0
    /\ ops' = ops - 1
    /\ lock > 0
    /\ lock' = Wait(lock)
    /\ th' = [th EXCEPT ![t].pc = "display", ![t].op = "display",
                        ![t].restored = NULL, ![t].sort_by = sort, ![t].i = 1]
    /\ UNCHANGED <<contexts, ctxs, secs, EXEC_ORDER_ID, end_time, now, hist>>

\* the line "Thread %x", then (*i)->toplevel->Display as far as its second
\* loop, or to its return when children_vect is empty
DisplayContext(t) ==
    /\ th[t].pc = "display"
    /\ th[t].frames = <<>>
    /\ th[t].i <= Len(contexts)
    /\ \E f \in Enter(ctxs[contexts[th[t].i]].toplevel, th[t].sort_by) :
          th' = [th EXCEPT ![t].frames = Unwind(<<f>>),
                           ![t].i = @ + 1,
                           ![t].out = Append(@, Banner(contexts[th[t].i]))]
    /\ UNCHANGED <<contexts, ctxs, secs, EXEC_ORDER_ID, end_time, lock, now, hist, ops>>

\* one turn of the second loop: the line of children_vect[i], then
\* sect->Display as far as its second loop, or to its return when
\* children_vect is empty
DisplayLine(t) ==
    /\ th[t].pc = "display"
    /\ th[t].frames # <<>>
    /\ ~Top(t).fault
    /\ LET sect == Top(t).children_vect[Top(t).i]
           d == Len(th[t].frames)
       IN  /\ sect # NULL
           /\ \E f \in Enter(sect, th[t].sort_by) :
                 th' = [th EXCEPT
                          ![t].frames = Unwind(Append([@ EXCEPT ![d].i = @ + 1], f)),
                          ![t].out = Append(@, Line(Top(t).sect, sect))]
    /\ UNCHANGED <<contexts, ctxs, secs, EXEC_ORDER_ID, end_time, lock, now, hist, ops>>

\* a read through a null pointer taken from a children map, by the comparator
\* or by the line of children_vect[i]: the process dies
DisplayNull(t) ==
    /\ th[t].pc = "display"
    /\ th[t].frames # <<>>
    /\ \/ Top(t).fault
       \/ Top(t).children_vect[Top(t).i] = NULL
    /\ th' = [u \in AllThreads |->
                IF u \in Threads THEN [th[u] EXCEPT !.pc = "dead"] ELSE th[u]]
    /\ UNCHANGED <<contexts, ctxs, secs, EXEC_ORDER_ID, end_time, lock, now, hist, ops>>

\* the loop over contexts is over: lock.Signal()
DisplayEnd(t) ==
    /\ th[t].pc = "display"
    /\ th[t].frames = <<>>
    /\ th[t].i > Len(contexts)
    /\ lock' = Signal(lock)
    /\ th' = [th EXCEPT ![t] = Return(t, @)]
    /\ UNCHANGED <<contexts, ctxs, secs, EXEC_ORDER_ID, end_time, now, hist, ops>>

----------------------------------------------------------------------------
\* threads calling SectionPush and SectionPop
NextPushPop ==
    \E t \in AllThreads :
        \/ \E n \in Labels : PushCall(t, n)
        \/ GetContextRoot(t)
        \/ PushLookup(t)
        \/ CtorRead(t)
        \/ CtorWrite(t)
        \/ PushLink(t)
        \/ PushShift(t)
        \/ PopCall(t)
        \/ PopGetContext(t)
        \/ PopAtRoot(t)
        \/ PopMeasure(t)
        \/ PopRecord(t)

\* threads calling SectionPush, SectionPop and Clear
Next ==
    \E t \in AllThreads :
        \/ \E n \in Labels : PushCall(t, n)
        \/ GetContextRoot(t)
        \/ PushLookup(t)
        \/ CtorRead(t)
        \/ CtorWrite(t)
        \/ PushLink(t)
        \/ PushShift(t)
        \/ PopCall(t)
        \/ PopGetContext(t)
        \/ PopAtRoot(t)
        \/ PopMeasure(t)
        \/ PopRecord(t)
        \/ ClearCall(t)
        \/ ClearBody(t)
        \/ Crash(t)

SpecPushPop == Init /\ [][NextPushPop]_vars

Spec == Init /\ [][Next]_vars

\* two threads with MaxOps calls between them
InitNested ==
    /\ contexts = <<>>
    /\ ctxs = <<>>
    /\ secs = <<>>
    /\ EXEC_ORDER_ID = 0
    /\ end_time = 0
    /\ lock = 1
    /\ now = 0
    /\ th = [t \in AllThreads |-> IdleThread]
    /\ ops = MaxOps
    /\ hist = <<>>

\* thread 1 calling SectionPush and SectionPop, nested as deep as its calls
\* allow, while thread 2 calls SectionPop only, each call of which writes
\* end_time
NextNested ==
    \/ \E n \in Labels : PushCall(1, n)
    \/ GetContextRoot(1)
    \/ PushLookup(1)
    \/ CtorRead(1)
    \/ CtorWrite(1)
    \/ PushLink(1)
    \/ PushShift(1)
    \/ PopCall(1)
    \/ PopGetContext(1)
    \/ PopAtRoot(1)
    \/ PopMeasure(1)
    \/ PopRecord(1)
    \/ PopCall(2)
    \/ PopGetContext(2)
    \/ GetContextRoot(2)
    \/ PopAtRoot(2)

SpecNested == InitNested /\ [][NextNested]_vars

\* no thread is between a SectionPush and the SectionPop that matches it, nor
\* inside a SectionPush
NoSectionOpen == \A u \in Threads : th[u].saved = <<>> /\ th[u].op # "push"

\* Clear called only when no section is open
ClearCallAtRest(t) == NoSectionOpen /\ ClearCall(t)

\* threads calling SectionPush and SectionPop, and Clear when no section is open
NextClearAtRest ==
    \E t \in AllThreads :
        \/ \E n \in Labels : PushCall(t, n)
        \/ GetContextRoot(t)
        \/ PushLookup(t)
        \/ CtorRead(t)
        \/ CtorWrite(t)
        \/ PushLink(t)
        \/ PushShift(t)
        \/ PopCall(t)
        \/ PopGetContext(t)
        \/ PopAtRoot(t)
        \/ PopMeasure(t)
        \/ PopRecord(t)
        \/ ClearCallAtRest(t)
        \/ ClearBody(t)
        \/ Crash(t)

SpecClearAtRest == Init /\ [][NextClearAtRest]_vars

\* threads calling SectionPush, SectionPop, Clear and Display
NextDisplay ==
    \E t \in AllThreads :
        \/ \E n \in Labels : PushCall(t, n)
        \/ GetContextRoot(t)
        \/ PushLookup(t)
        \/ CtorRead(t)
        \/ CtorWrite(t)
        \/ PushLink(t)
        \/ PushShift(t)
        \/ PopCall(t)
        \/ PopGetContext(t)
        \/ PopAtRoot(t)
        \/ PopMeasure(t)
        \/ PopRecord(t)
        \/ ClearCall(t)
        \/ ClearBody(t)
        \/ Crash(t)
        \/ \E sort \in SORT_BY : DisplayCall(t, sort)
        \/ DisplayContext(t)
        \/ DisplayLine(t)
        \/ DisplayNull(t)
        \/ DisplayEnd(t)

SpecDisplay == Init /\ [][NextDisplay]_vars

----------------------------------------------------------------------------
(* What the claims speak of.                                               *)

\* the context the registry holds for thread t, or NULL
ContextOf(t) ==
    IF \E i \in 1..Len(contexts) : ctxs[contexts[i]].thread_context = t
    THEN contexts[CHOOSE i \in 1..Len(contexts) : ctxs[contexts[i]].thread_context = t]
    ELSE NULL

\* thread t takes a step
Steps(t) == th'[t] # th[t]

\* the sections that are children of section p
ChildrenOf(p) == {secs[p].children[n] : n \in DOMAIN secs[p].children} \ {NULL}

OneThread == Cardinality(Threads) = 1

----------------------------------------------------------------------------
\* C1: once a SectionPop has matched a SectionPush, the thread's
\* context.current is the section it was immediately before that push, whatever
\* balanced pushes and pops came in between.
C1_MatchedPopRestoresCurrent ==
    \A t \in Threads :
        (th[t].pc = "idle" /\ th[t].restored # NULL)
            => /\ ContextOf(t) # NULL
               /\ ctxs[ContextOf(t)].current = th[t].restored

\* a push at the root was matched by its pop after a complete push/pop cycle
\* one level down, and an inner pop has led back to a section that is not the root
C1_Witness ==
    \E t \in Threads :
        /\ th[t].pc = "idle"
        /\ ContextOf(t) # NULL
        /\ th[t].restored = ctxs[ContextOf(t)].toplevel
        /\ \E a \in ChildrenOf(th[t].restored) :
              /\ secs[a].call_count = 1
              /\ \E b \in ChildrenOf(a) : secs[b].call_count = 1

\* C2: at every section, call_count is the number of durations recorded there
\* and avg_time * call_count is their sum; a SectionPop that is not at the root
\* adds one to the count of the current section and of no other.
C2_CountAndTotal ==
    \A s \in 1..Len(secs) :
        /\ secs[s].call_count = hist[s].n
        /\ secs[s].avg_time[1] * secs[s].call_count = hist[s].sum * secs[s].avg_time[2]
        /\ secs[s].avg_time[2] > 0

\* clock 0, 5, 10, 20 with push A, pop, push A, pop: count 2, average 7.5, total 15
C2_Witness ==
    \E s \in 1..Len(secs) :
        /\ secs[s].name = "A"
        /\ secs[s].call_count = 2
        /\ secs[s].avg_time = <<15, 2>>
        /\ Total(secs[s]) = <<15, 1>>
        /\ hist[s] = [n |-> 2, sum |-> 15]
        /\ now = 20

\* the current section of context c is its root (or c is still being made)
CurrentIsRoot(c) ==
    ctxs[c].current = NULL \/ secs[ctxs[c].current].parent = NULL

\* thread t is in a SectionPop and its current section, if it has a context, is
\* the root
PopsAtRoot(t) ==
    /\ th[t].op = "pop"
    /\ th[t].context # NULL => CurrentIsRoot(th[t].context)
    /\ (th[t].context = NULL /\ ContextOf(t) # NULL) => CurrentIsRoot(ContextOf(t))

\* C3: a SectionPop whose current section is the root is ignored: no step of it
\* changes the current of a context that exists or an existing section, and
\* from the check of the parent it returns.
C3_PopAtRootIgnored ==
    [][\A t \in AllThreads :
          (PopsAtRoot(t) /\ Steps(t))
              => /\ \A c \in 1..Len(ctxs) :
                      ctxs[c].current # NULL => ctxs'[c].current = ctxs[c].current
                 /\ \A s \in 1..Len(secs) : secs'[s] = secs[s]
                 /\ hist' = hist \/ (th'[t].pc = "pop_check" /\ Len(secs') = Len(secs) + 1)
                 /\ th[t].pc = "pop_check" => th'[t].pc = "idle"]_vars

\* pop(); pop(); push("A"); pop() in a run of one thread: four calls made, and
\* the only section below the root is "A" with call_count 1
C3_Witness ==
    /\ OneThread
    /\ ops = MaxOps - 4
    /\ \A t \in Threads : th[t].pc = "idle"
    /\ Len(contexts) = 1
    /\ Len(secs) = 2
    /\ secs[2].name = "A"
    /\ secs[2].call_count = 1
    /\ ctxs[contexts[1]].current = ctxs[contexts[1]].toplevel
    /\ ChildrenOf(ctxs[contexts[1]].toplevel) = {2}

\* C4: a SectionPush whose label is already a child of the current section
\* takes that child and constructs nothing: the lookup yields the child, which
\* then becomes current; a section is constructed only for a label that has no
\* child; and the child a label has under a parent never changes.
C4_ReentrySameSection ==
    [][/\ \A t \in AllThreads :
             LET c == th[t].context
                 cur == ctxs[c].current
                 n == th[t].name
                 old == IF n \in DOMAIN secs[cur].children
                        THEN secs[cur].children[n] ELSE NULL
             IN  /\ (th[t].pc = "push_lookup" /\ Steps(t) /\ old # NULL)
                       => /\ th'[t].s = old
                          /\ th'[t].pc = "push_shift"
                          /\ Len(secs') = Len(secs)
                 /\ (th[t].pc = "push_shift" /\ Steps(t))
                       => /\ old = th[t].s
                          /\ ctxs'[c].current = old
                          /\ Len(secs') = Len(secs)
                 /\ (th[t].pc \in {"push_ctor", "push_ctor_write", "push_link"} /\ Steps(t))
                       => old = NULL
       /\ \A p \in 1..Len(secs) : \A n \in DOMAIN secs[p].children :
             secs[p].children[n] # NULL
                 => /\ n \in DOMAIN secs'[p].children
                    /\ secs'[p].children[n] = secs[p].children[n]]_vars

\* the same label was pushed twice at the root: one section, two cycles in it
C4_Witness ==
    /\ Len(secs) = 2
    /\ secs[2].call_count = 2
    /\ \E c \in 1..Len(ctxs) : ChildrenOf(ctxs[c].toplevel) = {2}

\* the contexts of thread u, with the sections below their roots
OwnedContexts(u) == {c \in 1..Len(ctxs) : ctxs[c].thread_context = u}
OwnedSections(u) == UNION {Subtree(ctxs[c].toplevel) : c \in OwnedContexts(u)}

\* C5: a step of a SectionPush or SectionPop of thread t leaves every other
\* thread's context as it was: its current, and the children, call_count and
\* avg_time of its sections; no section is in the trees of two contexts.
C5_OtherContextsUntouched ==
    [][\A t \in AllThreads : \A u \in AllThreads \ {t} :
          Steps(t) =>
              /\ \A c \in OwnedContexts(u) :
                    /\ ctxs'[c].current = ctxs[c].current
                    /\ ctxs'[c].toplevel = ctxs[c].toplevel
              /\ \A s \in OwnedSections(u) :
                    /\ secs'[s].children = secs[s].children
                    /\ secs'[s].call_count = secs[s].call_count
                    /\ secs'[s].avg_time = secs[s].avg_time
              /\ OwnedSections(t)' \cap OwnedSections(u)' = {}]_vars

\* two threads, two contexts: the one's root has the only child "A", recorded
\* once, the other's has the only child "B"
C5_Witness ==
    /\ Len(contexts) = 2
    /\ \A t \in Threads : th[t].pc = "idle"
    /\ \E a, b \in 1..Len(secs) :
          /\ secs[a].name = "A" /\ secs[a].call_count = 1
          /\ secs[b].name = "B"
          /\ ChildrenOf(ctxs[contexts[1]].toplevel) = {a}
          /\ ChildrenOf(ctxs[contexts[2]].toplevel) = {b}
          /\ ctxs[contexts[2]].current = b

\* the contexts the registry holds for thread t
Registered(t) == {i \in 1..Len(contexts) : ctxs[contexts[i]].thread_context = t}

\* C6: the registry never holds two contexts of one thread, and a GetContext of
\* a thread whose context is in the registry returns that context and adds none.
C6_OneContextPerThread ==
    [][/\ \A t \in AllThreads : Cardinality(Registered(t)') <= 1
       /\ \A t \in AllThreads :
             (th[t].context = NULL /\ th'[t].context # NULL /\ Registered(t) # {})
                 => /\ \A i \in Registered(t) : th'[t].context = contexts[i]
                    /\ contexts' = contexts]_vars

\* both threads have a context, and one of them has just got back the context
\* it made in an earlier call
C6_Witness ==
    /\ Len(contexts) = 2
    /\ \E t \in Threads :
          /\ th[t].pc \in {"push_lookup", "pop_check"}
          /\ th[t].context = ContextOf(t)
          /\ ChildrenOf(ctxs[th[t].context].toplevel) # {}

\* C7 (as claimed): the elapsed time a SectionPop is about to record is the
\* clock value that same call sampled minus the section's start stamp.
C7_ElapsedFromOwnSample ==
    \A t \in Threads :
        th[t].pc = "pop_record"
            => th[t].time = th[t].stop - secs[th[t].s].timer

\* C8: the step that completes a Clear leaves the registry empty and every
\* context and section it held destroyed; what the registry holds afterwards is alive, made since, and
\* counts only what was recorded since: call_count of "A" after Clear, push("A"),
\* pop() is 1 whatever was recorded before.
C8_ClearDiscardsAll ==
    [][/\ \A t \in AllThreads :
             (th[t].pc = "clear_locked" /\ th'[t].pc = "idle")
                 => /\ contexts' = <<>>
                    /\ \A i \in 1..Len(contexts) : ~ctxs'[contexts[i]].alive
                    /\ \A s \in Destroyed : ~secs'[s].alive
       /\ \A i \in 1..Len(contexts') :
             /\ ctxs'[contexts'[i]].alive
             /\ \A s \in Subtree(ctxs[contexts[i]].toplevel)' :
                   /\ secs'[s].alive
                   /\ secs'[s].call_count = hist'[s].n]_vars

\* push("A"), pop(), Clear, push("A"), pop() by one thread: the registry holds
\* one context, made after the Clear, whose only section "A" has count 1, and
\* the destroyed "A" had been recorded too
C8_Witness ==
    /\ OneThread
    /\ \A t \in Threads : th[t].pc = "idle"
    /\ Len(contexts) = 1
    /\ contexts[1] = 2
    /\ \E a \in ChildrenOf(ctxs[contexts[1]].toplevel) :
          /\ ChildrenOf(ctxs[contexts[1]].toplevel) = {a}
          /\ secs[a].name = "A"
          /\ secs[a].call_count = 1
    /\ \E d \in 1..Len(secs) :
          /\ ~secs[d].alive
          /\ secs[d].name = "A"
          /\ secs[d].call_count = 1

\* C9 (as claimed): of two sections the one constructed later has the
\* larger exec_order_id.
C9_ExecOrderStrict ==
    \A i, j \in 1..Len(secs) :
        i < j => secs[i].exec_order_id < secs[j].exec_order_id

\* thread t's call reaches GetContext's lock.Wait()
EntersGetContext(t) == th[t].pc \in {"idle", "pop_sampled"}

\* C10 (as claimed): the number of contexts in the registry changes only by
\* +1 at a thread's first SectionPush and to zero at Clear.
C10_CreatedOnFirstPushOnly ==
    [][Len(contexts') # Len(contexts)
          => \/ /\ Len(contexts') = Len(contexts) + 1
                /\ \E t \in AllThreads :
                      Steps(t) /\ th'[t].op = "push" /\ ~th[t].pushed
             \/ /\ Len(contexts') = 0
                /\ \E t \in AllThreads : Steps(t) /\ th[t].op = "clear"]_vars

\* C10 (amended): the registry changes only by one context added, for the
\* calling thread, in the GetContext of a SectionPush or of a SectionPop that
\* finds no context of that thread in the registry, and by Clear emptying it.
C10_CreatedByGetContextOnly ==
    [][contexts' # contexts
          => \/ \E t \in AllThreads :
                   /\ Steps(t)
                   /\ EntersGetContext(t)
                   /\ th'[t].op \in {"push", "pop"}
                   /\ Registered(t) = {}
                   /\ Len(contexts') = Len(contexts) + 1
                   /\ SubSeq(contexts', 1, Len(contexts)) = contexts
                   /\ ctxs'[contexts'[Len(contexts')]].thread_context = t
                   /\ th'[t].context = contexts'[Len(contexts')]
             \/ \E t \in AllThreads :
                   /\ Steps(t)
                   /\ th[t].pc = "clear_locked"
                   /\ contexts' = <<>>]_vars

\* a SectionPop of a thread that never pushed has made the thread's context
C10_Witness ==
    \E t \in Threads :
        /\ th[t].pc = "pop_check"
        /\ ~th[t].pushed
        /\ th[t].context # NULL
        /\ th[t].context = ContextOf(t)

----------------------------------------------------------------------------
\* thread t is between the lock.Wait() and the lock.Signal() of GetContext,
\* Clear or Display
InRegistry(t) == th[t].pc \in {"gc_ctor", "clear_locked", "display"}

\* the lock is held by exactly the threads inside a registry operation, of
\* which there is at most one
LockDiscipline ==
    LET inside == {t \in Threads : InRegistry(t)}
    IN  /\ Cardinality(inside) <= 1
        /\ lock = 1 - Cardinality(inside)

\* C11: GetContext, Clear and the loop of Display take the one lock when they
\* begin and give it back on every way out: while the process lives, at most
\* one thread is inside such a region, the lock is free exactly when none is,
\* a thread enters a region only by taking the free lock, and contexts does
\* not change while a thread is inside Display.
C11_LockDiscipline ==
    [][/\ ~aborted => LockDiscipline
       /\ ~aborted' => LockDiscipline'
       /\ \A t \in Threads :
             /\ (~InRegistry(t) /\ InRegistry(t)') => (lock = 1 /\ lock' = 0)
             /\ (th[t].pc = "display" /\ th'[t].pc = "display")
                   => contexts' = contexts
             /\ (th[t].pc = "display" /\ ~aborted')
                   => \A u \in Threads \ {t} : ~InRegistry(u)']_vars

\* a thread is inside Display, at the children of the root of the other
\* thread's context, while that thread, in SectionPop, has come to GetContext
\* and the lock is taken
C11_Witness ==
    /\ lock = 0
    /\ \E t \in Threads :
          /\ th[t].pc = "display"
          /\ th[t].frames # <<>>
          /\ \E u \in Threads \ {t} :
                /\ th[u].pc = "pop_sampled"
                /\ ContextOf(u) # NULL
                /\ Top(t).sect = ctxs[ContextOf(u)].toplevel

----------------------------------------------------------------------------
\* C12: every entry Display has read out of a children map, whatever the
\* other thread's SectionPush or SectionPop is doing, is a pointer to a
\* section that is linked in: not null, its name set, its parent the section
\* whose map it was read from.
C12_DisplayReadsLinkedSections ==
    \A t \in Threads :
        \A d \in 1..Len(th[t].frames) :
            LET f == th[t].frames[d]
            IN  \A k \in 1..Len(f.children_vect) :
                    /\ f.children_vect[k] # NULL
                    /\ secs[f.children_vect[k]].name # ""
                    /\ secs[f.children_vect[k]].parent = f.sect

----------------------------------------------------------------------------
----------------------------------------------------------------------------
\* the lines Display has written for the children of section p, in order
LinesOf(t, p) == SelectSeq(th[t].out, LAMBDA l : l.sect # NULL /\ l.parent = p)

\* Display has written its last line and is about to give back the lock
DisplayDone(t) ==
    th[t].pc = "display" /\ th[t].frames = <<>> /\ th[t].i > Len(contexts)

\* the sections in the trees of the contexts in the registry
Registry == UNION {Subtree(ctxs[contexts[k]].toplevel) : k \in 1..Len(contexts)}

\* C14: the lines Display writes for the children of one section come in the
\* order of the sort in force: under SORT_EXECUTION exec_order_id does not
\* go down from one line to the next, under SORT_TIME avg_time * call_count
\* does not go up; no line is written for a root; and when Display is done,
\* the lines of every section of the registry are its children, each once.
\* What is said of the totals and of the completeness of the lines is for
\* trees nobody records into while Display runs; there the lines under
\* SORT_EXECUTION also follow the order in which the sections were made.
C14_DisplaySorted ==
    \A t \in Threads : th[t].op = "display" =>
        /\ \A k \in 1..Len(th[t].out) :
              LET l == th[t].out[k]
              IN  l.sect # NULL => /\ secs[l.sect].parent # NULL
                                   /\ secs[l.sect].parent = l.parent
        /\ \A p \in 1..Len(secs) :
              LET ls == LinesOf(t, p)
              IN  /\ \A x, y \in 1..Len(ls) : x < y =>
                        /\ ls[x].sect # ls[y].sect
                        /\ th[t].sort_by = "SORT_EXECUTION" =>
                              /\ secs[ls[x].sect].exec_order_id
                                    <= secs[ls[y].sect].exec_order_id
                              /\ OneThread => ls[x].sect < ls[y].sect
                        /\ (th[t].sort_by = "SORT_TIME" /\ OneThread) =>
                              ~Greater(ls[y].total, ls[x].total)
                  /\ (OneThread /\ DisplayDone(t)) =>
                        /\ {ls[x].sect : x \in 1..Len(ls)} =
                              IF p \in Registry THEN ChildrenOf(p) ELSE {}
                        /\ \A c \in ChildrenOf(p) :
                              \E x \in 1..Len(ls) :
                                  /\ ls[x].sect = c
                                  /\ ls[x].total = Total(secs[c])

\* Display(SORT_TIME) is done: it has written the line of a section with the
\* larger total above the line of its sibling, which was made first
C14_Witness ==
    \E t \in Threads :
        /\ DisplayDone(t)
        /\ th[t].sort_by = "SORT_TIME"
        /\ \E x, y \in 1..Len(th[t].out) :
              /\ x < y
              /\ th[t].out[x].sect # NULL
              /\ th[t].out[y].sect # NULL
              /\ th[t].out[x].parent = th[t].out[y].parent
              /\ Greater(th[t].out[x].total, th[t].out[y].total)
              /\ secs[th[t].out[x].sect].exec_order_id
                    > secs[th[t].out[y].sect].exec_order_id

----------------------------------------------------------------------------
\* x + y for two doubles
Plus(x, y) == Frac(x[1] * y[2] + y[1] * x[2], x[2] * y[2])

\* the sum of avg_time * call_count over the sections in S
RECURSIVE SumOfTotals(_)
SumOfTotals(S) ==
    IF S = {} THEN <<0, 1>>
    ELSE LET s == CHOOSE x \in S : TRUE
         IN  Plus(Total(secs[s]), SumOfTotals(S \ {s}))

\* thread t has a context and is not inside any section
AtRest(t) ==
    /\ ContextOf(t) # NULL
    /\ ctxs[ContextOf(t)].current = ctxs[ContextOf(t)].toplevel

----------------------------------------------------------------------------
\* the sections reached from section r through the children maps are a tree
\* with root r
IsTree(r) ==
    /\ secs[r].parent = NULL
    /\ \A s \in Subtree(r) \ {r} :
          /\ secs[s].parent \in Subtree(r)
          /\ secs[s].name \in DOMAIN secs[secs[s].parent].children
          /\ secs[secs[s].parent].children[secs[s].name] = s
    /\ \A p, q \in Subtree(r) :
          \A n \in DOMAIN secs[p].children, m \in DOMAIN secs[q].children :
              (secs[p].children[n] # NULL
                  /\ secs[p].children[n] = secs[q].children[m])
                 => (p = q /\ n = m)

\* C16: for every thread, the sections reached from the root of its context
\* are a tree: the root has no parent, every other section s is
\* s.parent.children[s.name], and no section is the child of two sections or
\* under two names.  It holds after every SectionPush and SectionPop, and at
\* every step inside them.
C16_SectionsFormTree ==
    \A k \in 1..Len(contexts) :
        ctxs[contexts[k]].toplevel # NULL => IsTree(ctxs[contexts[k]].toplevel)

\* a thread has returned from its calls with a tree of a root, two children
\* of the root and a child of one of them
C16_Witness ==
    \E t \in Threads :
        /\ th[t].pc = "idle"
        /\ ContextOf(t) # NULL
        /\ Cardinality(ChildrenOf(ctxs[ContextOf(t)].toplevel)) = 2
        /\ \E a \in ChildrenOf(ctxs[ContextOf(t)].toplevel) : ChildrenOf(a) # {}

----------------------------------------------------------------------------
\* context c is in GetContext between new DProfileContext and the
\* assignments to toplevel and current, the lock held by the thread making it
UnderConstruction(c) ==
    /\ ctxs[c].toplevel = NULL
    /\ \E t \in Threads : th[t].pc = "gc_ctor" /\ th[t].context = c

\* C17: the current of every context GetContext has returned is not null and
\* is a section of that context's own tree, whatever SectionPush and
\* SectionPop calls were made, balanced or not; so the assert of SectionPush
\* holds and SectionPop reads context->current->parent through a section.
C17_CurrentInOwnTree ==
    /\ \A k \in 1..Len(contexts) :
          LET c == contexts[k]
          IN  ~UnderConstruction(c) =>
                  /\ ctxs[c].current # NULL
                  /\ ctxs[c].current \in Subtree(ctxs[c].toplevel)
    /\ \A t \in Threads :
          th[t].pc \in {"push_lookup", "pop_check"} =>
              /\ th[t].context = ContextOf(t)
              /\ ctxs[th[t].context].current # NULL

\* a SectionPop with no push to match, after a push and its pop: the thread
\* is at the check of context->current->parent with current at the root
C17_Witness ==
    \E t \in Threads :
        /\ th[t].pc = "pop_check"
        /\ ctxs[th[t].context].current = ctxs[th[t].context].toplevel
        /\ \E a \in ChildrenOf(ctxs[th[t].context].toplevel) :
              secs[a].call_count = 1

----------------------------------------------------------------------------
\* C19: nothing is ever recorded into the root section of a context: its
\* call_count is 0 and its avg_time is 0 in every state, whatever
\* SectionPush and SectionPop calls were made.
C19_RootNeverRecorded ==
    \A c \in 1..Len(ctxs) :
        ctxs[c].toplevel # NULL =>
            /\ secs[ctxs[c].toplevel].call_count = 0
            /\ secs[ctxs[c].toplevel].avg_time = <<0, 1>>
            /\ hist[ctxs[c].toplevel].n = 0

\* one thread has made three calls and is back at the root: a push, its pop,
\* which recorded into the child, and a pop at the root, which made no section
C19_Witness ==
    /\ OneThread
    /\ ops = MaxOps - 3
    /\ Len(secs) = 2
    /\ secs[2].call_count = 1
    /\ \E t \in Threads : th[t].pc = "idle" /\ AtRest(t)

----------------------------------------------------------------------------
\* C18: Clear being called only when no thread is between a SectionPush and
\* its matching SectionPop, the context GetContext has returned to a
\* SectionPush or SectionPop is not one Clear has destroyed, at any step of
\* that call.
C18_NoUseAfterClear == \A t \in Threads : ~Dangling(t)

----------------------------------------------------------------------------
\* Clear has destroyed a context of thread t whose current was not its root:
\* the thread was between a SectionPush and its SectionPop
ClearedInSection(t) ==
    \E c \in OwnedContexts(t) :
        ~ctxs[c].alive /\ ctxs[c].current # ctxs[c].toplevel

\* no section has been made in a context of thread t since
NoSectionSince(t) ==
    \A k \in Registered(t) :
        \/ ctxs[contexts[k]].toplevel = NULL
        \/ DOMAIN secs[ctxs[contexts[k]].toplevel].children = {}

\* C20: when the one thread there is has called Clear between a SectionPush
\* and its SectionPop, no step of the SectionPop that comes next changes a
\* section or a context that exists, destroyed or not, or records anything;
\* it returns with exactly one context in the registry, made by this call
\* or found as fresh as it was made, alive, its current its root, and the
\* root without children and with nothing recorded.
C20_PopAfterOwnClear ==
    [][\A t \in AllThreads :
          (/\ OneThread
           /\ ClearedInSection(t)
           /\ NoSectionSince(t)
           /\ th'[t].op = "pop" \/ (th[t].op = "pop" /\ th'[t].pc = "idle"))
            => /\ \A s \in 1..Len(secs) : secs'[s] = secs[s] /\ hist'[s] = hist[s]
               /\ \A c \in 1..Len(ctxs) :
                     ctxs'[c] = ctxs[c] \/ (ctxs[c].alive /\ ctxs[c].toplevel = NULL)
               /\ th'[t].pc = "idle" =>
                     /\ Len(contexts') = 1
                     /\ th[t].context = contexts'[1]
                     /\ ctxs'[contexts'[1]].alive
                     /\ ctxs'[contexts'[1]].thread_context = t
                     /\ ctxs'[contexts'[1]].current = ctxs'[contexts'[1]].toplevel
                     /\ secs'[ctxs'[contexts'[1]].toplevel].alive
                     /\ secs'[ctxs'[contexts'[1]].toplevel].children = <<>>
                     /\ secs'[ctxs'[contexts'[1]].toplevel].call_count = 0]_vars

\* the one thread has made three calls, SectionPush, Clear and SectionPop:
\* the first context is destroyed with its current below its root, the
\* second is alive and in the registry, its root without children
C20_Witness ==
    /\ OneThread
    /\ ops = MaxOps - 3
    /\ Len(ctxs) = 2
    /\ contexts = <<2>>
    /\ ~ctxs[1].alive
    /\ ctxs[1].current # ctxs[1].toplevel
    /\ ctxs[2].toplevel # NULL
    /\ ctxs[2].current = ctxs[2].toplevel
    /\ secs[ctxs[2].toplevel].children = <<>>
    /\ \E t \in Threads : th[t].pc = "idle"
====
